---- MODULE Spec2Model ----
(***************************************************************************)
(* Model of src/src/app.py: the Mergington High School activities API.     *)
(* The MongoDB collection `activities_collection` is a sequence of         *)
(* documents in insertion (natural) order; every pymongo call is one       *)
(* atomic step on it.  Spec runs each request handler to completion in one *)
(* step (requests one at a time); SpecConc splits every handler at its     *)
(* store calls, so that requests of different workers interleave.          *)
(***************************************************************************)
EXTENDS Integers, Sequences, FiniteSets, TLC

\* Bounds of the model.
NumProcs == 2
NumActivities == 2
NumEmails == 2

Procs == 1..NumProcs
Emails == 1..NumEmails
\* Activity names a request may carry: 0 is a name absent from the catalogue.
ActivityNames == 0..NumActivities

VARIABLES store, proc, response

vars == <<store, proc, response>>

----------------------------------------------------------------------------
\* The seed catalogue, scaled down: activity n has room for n participants and
\* starts with n - 1 enrolled, so that every seeded roster is duplicate-free
\* and under its capacity, as in the source.
initial_activities ==
    [n \in 1..NumActivities |->
        [description |-> n,
         schedule |-> n,
         max_participants |-> n,
         participants |-> [i \in 1..(n - 1) |-> i]]]

\* `x in list`
Contains(seq, x) == \E i \in 1..Len(seq) : seq[i] = x

----------------------------------------------------------------------------
\* The store's verbs.

\* Index of the first document whose activity_name is name, 0 when none:
\* the document a {"activity_name": name} filter selects.
MatchIndex(coll, name) ==
    IF \E i \in 1..Len(coll) : coll[i].activity_name = name
    THEN CHOOSE i \in 1..Len(coll) :
            /\ coll[i].activity_name = name
            /\ \A j \in 1..(i - 1) : coll[j].activity_name # name
    ELSE 0

\* find_one: <<>> is None, <<doc>> the document found.
find_one(coll, name) ==
    LET i == MatchIndex(coll, name)
    IN IF i = 0 THEN <<>> ELSE <<coll[i]>>

count_documents(coll) == Len(coll)

\* insert_many: the documents are appended in order, each given a fresh id.
insert_many(coll, documents) ==
    coll \o [k \in 1..Len(documents) |->
                [id |-> Len(coll) + k,
                 activity_name |-> documents[k].activity_name,
                 description |-> documents[k].description,
                 schedule |-> documents[k].schedule,
                 max_participants |-> documents[k].max_participants,
                 participants |-> documents[k].participants]]

\* Mutant of push: the value is put in front.
push_front(participants, email) == <<email>> \o participants

\* $push appends the value to the array.
push(participants, email) == Append(participants, email)

\* Mutant of pull: only the first element equal to the value is removed.
RECURSIVE pull_first(_, _)
pull_first(participants, email) ==
    IF participants = <<>> THEN <<>>
    ELSE IF Head(participants) = email THEN Tail(participants)
    ELSE <<Head(participants)>> \o pull_first(Tail(participants), email)

\* $pull removes every element of the array equal to the value.
pull(participants, email) == SelectSeq(participants, LAMBDA x : x # email)

\* Mutant of update_one_push: every document is modified, not the one matched.
update_many_push(coll, name, email) ==
    [coll |-> [i \in 1..Len(coll) |->
                  [coll[i] EXCEPT !.participants = Append(@, email)]],
     modified_count |-> Len(coll)]

\* Mutant of update_one_push: the push is conditional on room being left.
update_one_push_if_room(coll, name, email) ==
    LET i == MatchIndex(coll, name)
    IN IF i = 0 \/ Len(coll[i].participants) >= coll[i].max_participants
       THEN [coll |-> coll, modified_count |-> 0]
       ELSE [coll |-> [coll EXCEPT ![i].participants = Append(@, email)],
             modified_count |-> 1]

\* Mutant of update_one_push: $addToSet, which leaves an array that already
\* holds the value as it is.
update_one_add_to_set(coll, name, email) ==
    LET i == MatchIndex(coll, name)
    IN IF i = 0 \/ Contains(coll[i].participants, email)
       THEN [coll |-> coll, modified_count |-> 0]
       ELSE [coll |-> [coll EXCEPT ![i].participants = Append(@, email)],
             modified_count |-> 1]

\* update_one with $push: modifies the first matching document.
update_one_push(coll, name, email) ==
    LET i == MatchIndex(coll, name)
    IN IF i = 0
       THEN [coll |-> coll, modified_count |-> 0]
       ELSE [coll |-> [coll EXCEPT ![i].participants = push(@, email)],
             modified_count |-> 1]

\* update_one with $pull: a matched document that does not hold the value is
\* left as it is and is not counted as modified.
update_one_pull(coll, name, email) ==
    LET i == MatchIndex(coll, name)
    IN IF i = 0
       THEN [coll |-> coll, modified_count |-> 0]
       ELSE [coll |-> [coll EXCEPT ![i].participants = pull(@, email)],
             modified_count |->
                IF Contains(coll[i].participants, email) THEN 1 ELSE 0]

----------------------------------------------------------------------------
\* Responses.

HTTPException(status_code, detail) ==
    [status_code |-> status_code, detail |-> detail]

Proceed == [status_code |-> 0, detail |-> ""]

\* The body is the JSON object get_activities returns, empty otherwise.
Response(op, r) ==
    [op |-> op, status_code |-> r.status_code, detail |-> r.detail, body |-> <<>>]

\* The step taken sent no response.
NoResponse == Response("none", Proceed)

\* The documents populate_database builds from the catalogue.
documents ==
    [n \in 1..NumActivities |->
        [activity_name |-> n,
         description |-> initial_activities[n].description,
         schedule |-> initial_activities[n].schedule,
         max_participants |-> initial_activities[n].max_participants,
         participants |-> initial_activities[n].participants]]

\* Mutant of signup_check: the capacity test is off by one.
signup_check_off_by_one(activity, email) ==
    IF activity = <<>>
    THEN HTTPException(404, "Activity not found")
    ELSE IF Contains(activity[1].participants, email)
    THEN HTTPException(400, "Already signed up for this activity")
    ELSE IF Len(activity[1].participants) > activity[1].max_participants
    THEN HTTPException(400, "Activity is full")
    ELSE Proceed

\* Mutant of signup_check: the duplicate test is missing.
signup_check_no_duplicate(activity, email) ==
    IF activity = <<>>
    THEN HTTPException(404, "Activity not found")
    ELSE IF Len(activity[1].participants) >= activity[1].max_participants
    THEN HTTPException(400, "Activity is full")
    ELSE Proceed

\* Mutant of signup_check: capacity is tested before the duplicate.
signup_check_capacity_first(activity, email) ==
    IF activity = <<>>
    THEN HTTPException(404, "Activity not found")
    ELSE IF Len(activity[1].participants) >= activity[1].max_participants
    THEN HTTPException(400, "Activity is full")
    ELSE IF Contains(activity[1].participants, email)
    THEN HTTPException(400, "Already signed up for this activity")
    ELSE Proceed

\* The validation of signup_for_activity on the document it read.
signup_check(activity, email) ==
    IF activity = <<>>
    THEN HTTPException(404, "Activity not found")
    ELSE IF Contains(activity[1].participants, email)
    THEN HTTPException(400, "Already signed up for this activity")
    ELSE IF Len(activity[1].participants) >= activity[1].max_participants
    THEN HTTPException(400, "Activity is full")
    ELSE Proceed

signup_result(modified_count) ==
    IF modified_count = 0
    THEN HTTPException(500, "Failed to sign up")
    ELSE HTTPException(200, "Signed up")

\* The validation of remove_participant on the document it read.
remove_check(activity, email) ==
    IF activity = <<>>
    THEN HTTPException(404, "Activity not found")
    ELSE IF ~Contains(activity[1].participants, email)
    THEN HTTPException(404, "Participant not found in this activity")
    ELSE Proceed

remove_result(modified_count) ==
    IF modified_count = 0
    THEN HTTPException(500, "Failed to remove participant")
    ELSE HTTPException(200, "Removed")

\* The document without its "_id" and "activity_name" fields.
activity_data(activity_doc) ==
    [description |-> activity_doc.description,
     schedule |-> activity_doc.schedule,
     max_participants |-> activity_doc.max_participants,
     participants |-> activity_doc.participants]

\* Mutant of activities_of: a name already in the dict keeps its first value.
RECURSIVE activities_first_wins(_, _)
activities_first_wins(activities_cursor, activities) ==
    IF activities_cursor = <<>> THEN activities
    ELSE LET activity_doc == Head(activities_cursor)
             activity_name == activity_doc.activity_name
         IN activities_first_wins(
                Tail(activities_cursor),
                [n \in DOMAIN activities \cup {activity_name} |->
                    IF n \in DOMAIN activities THEN activities[n]
                    ELSE activity_data(activity_doc)])

\* The loop of get_activities over the cursor, in the collection's order:
\* activities[activity_name] = activity_data, a later document of the same
\* name replacing the earlier one.
RECURSIVE activities_of(_, _)
activities_of(activities_cursor, activities) ==
    IF activities_cursor = <<>> THEN activities
    ELSE LET activity_doc == Head(activities_cursor)
             activity_name == activity_doc.activity_name
         IN activities_of(
                Tail(activities_cursor),
                [n \in DOMAIN activities \cup {activity_name} |->
                    IF n = activity_name THEN activity_data(activity_doc)
                    ELSE activities[n]])

----------------------------------------------------------------------------
\* Worker states.

Starting == [pc |-> "start", activity_name |-> 0, email |-> 0]
Idle == [pc |-> "idle", activity_name |-> 0, email |-> 0]
Pending(pc, name, email) == [pc |-> pc, activity_name |-> name, email |-> email]

\* The database is empty and no worker has imported the module yet.
Init ==
    /\ store = <<>>
    /\ proc = [p \in Procs |-> Starting]
    /\ response = NoResponse

----------------------------------------------------------------------------
\* Requests one at a time: every handler runs to completion in one step, in
\* whichever worker is up.

\* Some worker has finished importing the module and serves requests.
WorkerUp == {p \in Procs : proc[p].pc = "idle"} # {}

\* Mutant of populate_database: the catalogue is inserted without the count.
populate_database_always(p) ==
    /\ proc[p].pc = "start"
    /\ store' = insert_many(store, documents)
    /\ proc' = [proc EXCEPT ![p] = Idle]
    /\ response' = NoResponse

populate_database(p) ==
    /\ proc[p].pc = "start"
    /\ store' = IF count_documents(store) = 0
                THEN insert_many(store, documents)
                ELSE store
    /\ proc' = [proc EXCEPT ![p] = Idle]
    /\ response' = NoResponse

\* Mutant of signup_for_activity: the push is issued before the validation.
signup_for_activity_push_first(name, email) ==
    /\ WorkerUp
    /\ LET check == signup_check(find_one(store, name), email)
           result == update_one_push(store, name, email)
       IN /\ store' = result.coll
          /\ response' = Response("signup",
                                  IF check # Proceed THEN check
                                  ELSE signup_result(result.modified_count))
    /\ UNCHANGED proc

signup_for_activity(name, email) ==
    /\ WorkerUp
    /\ LET check == signup_check(find_one(store, name), email)
           result == update_one_push(store, name, email)
       IN IF check # Proceed
          THEN /\ store' = store
               /\ response' = Response("signup", check)
          ELSE /\ store' = result.coll
               /\ response' = Response("signup",
                                       signup_result(result.modified_count))
    /\ UNCHANGED proc

remove_participant(name, email) ==
    /\ WorkerUp
    /\ LET check == remove_check(find_one(store, name), email)
           result == update_one_pull(store, name, email)
       IN IF check # Proceed
          THEN /\ store' = store
               /\ response' = Response("remove", check)
          ELSE /\ store' = result.coll
               /\ response' = Response("remove",
                                       remove_result(result.modified_count))
    /\ UNCHANGED proc

\* find() and the loop over its cursor, served in one step.
get_activities ==
    /\ WorkerUp
    /\ response' = [op |-> "get_activities", status_code |-> 200, detail |-> "",
                    body |-> activities_of(store, <<>>)]
    /\ UNCHANGED <<store, proc>>

Next ==
    \/ \E p \in Procs : populate_database(p)
    \/ get_activities
    \/ \E name \in ActivityNames, email \in Emails :
          signup_for_activity(name, email)
    \/ \E name \in ActivityNames, email \in Emails :
          remove_participant(name, email)

Spec == Init /\ [][Next]_vars

----------------------------------------------------------------------------
\* Interleaved requests: one step per store call.  update_one changes one
\* document only, so requests for different activities commute; the workers
\* contend for the first activity of the catalogue (or ask for the unknown one).
ContendedNames == {n \in ActivityNames : n <= 1}

\* Mutant of populate_count: the insert follows whatever the count.
populate_count_always(p) ==
    /\ proc[p].pc = "start"
    /\ proc' = [proc EXCEPT ![p] = Pending("populate_insert", 0, 0)]
    /\ response' = NoResponse
    /\ UNCHANGED store

populate_count(p) ==
    /\ proc[p].pc = "start"
    /\ proc' = [proc EXCEPT ![p] =
                   IF count_documents(store) = 0
                   THEN Pending("populate_insert", 0, 0)
                   ELSE Idle]
    /\ response' = NoResponse
    /\ UNCHANGED store

populate_insert(p) ==
    /\ proc[p].pc = "populate_insert"
    /\ store' = insert_many(store, documents)
    /\ proc' = [proc EXCEPT ![p] = Idle]
    /\ response' = NoResponse

signup_find(p, name, email) ==
    /\ proc[p].pc = "idle"
    /\ LET check == signup_check(find_one(store, name), email)
       IN IF check # Proceed
          THEN /\ response' = Response("signup", check)
               /\ UNCHANGED proc
          ELSE /\ response' = NoResponse
               /\ proc' = [proc EXCEPT ![p] = Pending("signup_update", name, email)]
    /\ UNCHANGED store

signup_update(p) ==
    /\ proc[p].pc = "signup_update"
    /\ LET result == update_one_push(store, proc[p].activity_name, proc[p].email)
       IN /\ store' = result.coll
          /\ response' = Response("signup",
                                  signup_result(result.modified_count))
    /\ proc' = [proc EXCEPT ![p] = Idle]

remove_find(p, name, email) ==
    /\ proc[p].pc = "idle"
    /\ LET check == remove_check(find_one(store, name), email)
       IN IF check # Proceed
          THEN /\ response' = Response("remove", check)
               /\ UNCHANGED proc
          ELSE /\ response' = NoResponse
               /\ proc' = [proc EXCEPT ![p] = Pending("remove_update", name, email)]
    /\ UNCHANGED store

remove_update(p) ==
    /\ proc[p].pc = "remove_update"
    /\ LET result == update_one_pull(store, proc[p].activity_name, proc[p].email)
       IN /\ store' = result.coll
          /\ response' = Response("remove",
                                  remove_result(result.modified_count))
    /\ proc' = [proc EXCEPT ![p] = Idle]

NextConc ==
    \/ get_activities
    \/ \E p \in Procs :
        \/ populate_count(p)
        \/ populate_insert(p)
        \/ \E name \in ContendedNames, email \in Emails : signup_find(p, name, email)
        \/ signup_update(p)
        \/ \E name \in ContendedNames, email \in Emails : remove_find(p, name, email)
        \/ remove_update(p)

SpecConc == Init /\ [][NextConc]_vars

----------------------------------------------------------------------------
\* Vocabulary of the properties.

NotFound == HTTPException(404, "Activity not found")
ParticipantNotFound == HTTPException(404, "Participant not found in this activity")
Duplicate == HTTPException(400, "Already signed up for this activity")
CapacityExceeded == HTTPException(400, "Activity is full")

\* The response carries the failure f of operation op.
Failed(resp, op, f) == resp = Response(op, f)
Succeeded(resp, op) == resp.op = op /\ resp.status_code = 200
ValidationFailure(resp) == resp.status_code \in {400, 404}

\* The roster of the activity a request for name reads and writes.
Roster(coll, name) == coll[MatchIndex(coll, name)].participants

DuplicateFree(seq) == \A i, j \in 1..Len(seq) : seq[i] = seq[j] => i = j

\* The requests a worker may be given.
Requests == ActivityNames \X Emails

----------------------------------------------------------------------------
\* C1: with requests run one at a time, every activity in the store has at
\* most max_participants participants, in every reachable state.
C1_CapacityRespected ==
    \A i \in 1..Len(store) :
        Len(store[i].participants) <= store[i].max_participants

\* A signup has just filled an activity of capacity two to the brim.
C1_Witness ==
    /\ Succeeded(response, "signup")
    /\ \E i \in 1..Len(store) :
          /\ store[i].max_participants >= 2
          /\ Len(store[i].participants) = store[i].max_participants

\* C2: with requests run one at a time, no participant appears twice in the
\* participants list of any activity.
C2_NoDuplicates ==
    \A i \in 1..Len(store) : DuplicateFree(store[i].participants)

\* A signup of an enrolled participant has just been refused, and the rosters
\* have changed since seeding.
C2_Witness ==
    /\ Failed(response, "signup", Duplicate)
    /\ store # insert_many(<<>>, documents)

\* C3: a signup or remove that answers with a validation failure (404 or 400)
\* leaves the whole store as it was; one that answers with success has changed
\* the store; every request answers with one of the two.
C3_FailureLeavesStore ==
    [][\A r \in Requests :
          (signup_for_activity(r[1], r[2]) \/ remove_participant(r[1], r[2]))
          => /\ ValidationFailure(response') \/ response'.status_code = 200
             /\ ValidationFailure(response') => store' = store
             /\ response'.status_code = 200 => store' # store]_vars

\* A signup has been refused for a full roster after the rosters changed.
C3_Witness ==
    /\ Failed(response, "signup", CapacityExceeded)
    /\ store # insert_many(<<>>, documents)

\* C4: signup checks existence, then duplicate, then capacity: an unknown
\* activity gives "Activity not found"; an enrolled participant gives "Already
\* signed up", also when the roster is full; "Activity is full" is given
\* exactly when the activity exists, the participant is not enrolled and the
\* roster holds max_participants entries or more.
C4_CheckOrder ==
    [][\A r \in Requests :
          signup_for_activity(r[1], r[2])
          => LET activity == find_one(store, r[1])
                 enrolled == Contains(activity[1].participants, r[2])
                 full == Len(activity[1].participants) >= activity[1].max_participants
             IN /\ activity = <<>> => Failed(response', "signup", NotFound)
                /\ activity # <<>> /\ enrolled => Failed(response', "signup", Duplicate)
                /\ Failed(response', "signup", CapacityExceeded)
                      <=> (activity # <<>> /\ ~enrolled /\ full)]_vars

\* A signup was refused as a duplicate while every roster was full: the
\* roster it asked for was full and held the participant.
C4_Witness ==
    /\ Failed(response, "signup", Duplicate)
    /\ store # <<>>
    /\ \A i \in 1..Len(store) :
          Len(store[i].participants) >= store[i].max_participants

\* C5: a successful signup(A, p) appends p as the last element of A's roster
\* and changes nothing else in it: the roster is one longer, its last entry is
\* p, and the entries before it are the old roster in the old order.
C5_SignupAppends ==
    [][\A r \in Requests :
          (signup_for_activity(r[1], r[2]) /\ response'.status_code = 200)
          => LET old == Roster(store, r[1])
                 new == Roster(store', r[1])
             IN /\ Len(new) = Len(old) + 1
                /\ new[Len(new)] = r[2]
                /\ SubSeq(new, 1, Len(old)) = old]_vars

\* A signup has just been accepted into a roster that already had a member:
\* the roster of activity 2, seeded <<1>>, now reads <<1, 2>>.
C5_Witness ==
    /\ Succeeded(response, "signup")
    /\ \E i \in 1..Len(store) : store[i].participants = <<1, 2>>

\* Number of entries of seq equal to x.
RECURSIVE Occurrences(_, _)
Occurrences(seq, x) ==
    IF seq = <<>> THEN 0
    ELSE (IF Head(seq) = x THEN 1 ELSE 0) + Occurrences(Tail(seq), x)

\* seq without its first entry
\* equal to x (seq itself when there is none).
RECURSIVE WithoutFirst(_, _)
WithoutFirst(seq, x) ==
    IF seq = <<>> THEN <<>>
    ELSE IF Head(seq) = x THEN Tail(seq)
    ELSE <<Head(seq)>> \o WithoutFirst(Tail(seq), x)

\* seq without any entry equal to x, the others in their order.
RECURSIVE Others(_, _)
Others(seq, x) ==
    IF seq = <<>> THEN <<>>
    ELSE IF Head(seq) = x THEN Others(Tail(seq), x)
    ELSE <<Head(seq)>> \o Others(Tail(seq), x)

\* C6 as stated: a successful remove(A, p) removes exactly one entry of A's
\* roster, the first occurrence of p: the roster is one shorter, the other
\* entries keep their order, and the roster no longer contains p.
C6_RemovesExactlyOne ==
    [][\A p \in Procs :
          (remove_update(p) /\ response'.status_code = 200)
          => LET old == Roster(store, proc[p].activity_name)
                 new == Roster(store', proc[p].activity_name)
             IN /\ Len(new) = Len(old) - 1
                /\ new = WithoutFirst(old, proc[p].email)
                /\ ~Contains(new, proc[p].email)]_vars

\* C6 as amended: a successful remove(A, p) removes every occurrence of p from
\* A's roster, which is exactly one entry when the roster is duplicate-free:
\* the roster is shorter by the number of occurrences (at least one), the other
\* entries keep their order, the roster no longer contains p, and a remove(A, p)
\* validated against the new roster fails with "Participant not found".
C6_RemovesEveryOccurrence ==
    [][\A p \in Procs :
          (remove_update(p) /\ response'.status_code = 200)
          => LET name == proc[p].activity_name
                 email == proc[p].email
                 old == Roster(store, name)
                 new == Roster(store', name)
             IN /\ Occurrences(old, email) >= 1
                /\ Len(new) = Len(old) - Occurrences(old, email)
                /\ new = Others(old, email)
                /\ ~Contains(new, email)
                /\ DuplicateFree(old) => new = WithoutFirst(old, email)
                /\ remove_check(find_one(store', name), email) = ParticipantNotFound]_vars

\* A remove has been validated and is about to pull a participant that
\* interleaved signups have enrolled twice.
C6_Witness ==
    \E p \in Procs :
        /\ proc[p].pc = "remove_update"
        /\ Occurrences(Roster(store, proc[p].activity_name), proc[p].email) = 2

\* C7: populate_database inserts one document per catalogue entry, with the
\* entry's fields, when the collection holds no document, and leaves the
\* collection as it is otherwise, whatever its rosters have become.
C7_SeedingIdempotent ==
    [][\A p \in Procs :
          populate_database(p)
          => IF store = <<>>
             THEN /\ Len(store') = Cardinality(DOMAIN initial_activities)
                  /\ \A n \in DOMAIN initial_activities :
                        /\ Cardinality({i \in 1..Len(store') :
                                           store'[i].activity_name = n}) = 1
                        /\ \E i \in 1..Len(store') :
                              /\ store'[i].activity_name = n
                              /\ store'[i].description = initial_activities[n].description
                              /\ store'[i].schedule = initial_activities[n].schedule
                              /\ store'[i].max_participants =
                                    initial_activities[n].max_participants
                              /\ store'[i].participants =
                                    initial_activities[n].participants
             ELSE store' = store]_vars

\* Every worker has run populate_database, the last of them just now, on a
\* collection whose rosters requests had changed since it was seeded.
C7_Witness ==
    /\ response = NoResponse
    /\ \A p \in Procs : proc[p].pc = "idle"
    /\ Len(store) = NumActivities
    /\ store # insert_many(<<>>, documents)

\* C8: signup(A, p) and remove(A, p), successful or not, change at most the
\* participants of activity A: the number of documents, every document's id,
\* name, description, schedule and max_participants, and the rosters of the
\* other activities stay as they are; and no step of any kind adds a document
\* to, or drops one from, a seeded collection.
C8_Frame ==
    [][/\ store # <<>> => Len(store') = Len(store)
       /\ \A r \in Requests :
             (signup_for_activity(r[1], r[2]) \/ remove_participant(r[1], r[2]))
             => /\ Len(store') = Len(store)
                /\ \A i \in 1..Len(store) :
                      /\ store'[i].id = store[i].id
                      /\ store'[i].activity_name = store[i].activity_name
                      /\ store'[i].description = store[i].description
                      /\ store'[i].schedule = store[i].schedule
                      /\ store'[i].max_participants = store[i].max_participants
                      /\ store[i].activity_name # r[1]
                            => store'[i].participants = store[i].participants]_vars

\* A signup has just succeeded in a collection of several activities.
C8_Witness ==
    /\ Succeeded(response, "signup")
    /\ Len(store) >= 2

\* C9: with validation and mutation as separate steps, a signup that has
\* passed validation succeeds at its mutation, adding one entry, whatever the
\* roster has become in between; so two signups of different participants that
\* both validated against a roster of max_participants - 1 entries both
\* succeed, and the roster ends with max_participants + 1 entries.
C9_ValidatedSignupSucceeds ==
    [][\A p \in Procs :
          signup_update(p)
          => LET old == Roster(store, proc[p].activity_name)
                 new == Roster(store', proc[p].activity_name)
             IN /\ Succeeded(response', "signup")
                /\ new = Append(old, proc[p].email)
                /\ \A q \in Procs \ {p} : proc'[q] = proc[q]]_vars

\* A signup has just succeeded and left a duplicate-free roster one entry over
\* its capacity.
C9_Witness ==
    /\ Succeeded(response, "signup")
    /\ \E i \in 1..Len(store) :
          /\ Len(store[i].participants) = store[i].max_participants + 1
          /\ DuplicateFree(store[i].participants)

\* C10: no signup or remove request ends in InternalError (500 "Failed to sign
\* up" / "Failed to remove participant") in any interleaving of requests.
C10_NoInternalError == response.status_code # 500

\* The names stored, and whether each is stored once.
Names(coll) == {coll[i].activity_name : i \in 1..Len(coll)}
NameCount(coll, name) == Cardinality({i \in 1..Len(coll) : coll[i].activity_name = name})
UniqueNames(coll) ==
    \A i, j \in 1..Len(coll) : coll[i].activity_name = coll[j].activity_name => i = j

\* The last document of the collection that carries the name.
LastIndex(coll, name) ==
    CHOOSE i \in 1..Len(coll) :
        /\ coll[i].activity_name = name
        /\ \A j \in (i + 1)..Len(coll) : coll[j].activity_name # name

\* What the listing shows of a document: all but its id and its name.
Shown(doc) ==
    [description |-> doc.description,
     schedule |-> doc.schedule,
     max_participants |-> doc.max_participants,
     participants |-> doc.participants]

\* C11 as stated: get_activities returns a mapping with exactly one entry per
\* stored record, keyed by the record's name, whose value is the record's
\* description, schedule, max_participants and participants, no record being
\* left out; and it leaves the store unchanged.
C11_OneEntryPerRecord ==
    [][get_activities
       => /\ store' = store
          /\ Cardinality(DOMAIN response'.body) = Len(store)
          /\ \A i \in 1..Len(store) :
                /\ store[i].activity_name \in DOMAIN response'.body
                /\ response'.body[store[i].activity_name] = Shown(store[i])]_vars

\* C11 as amended: get_activities returns a mapping with exactly one entry per
\* stored activity name, whose value is the description, schedule,
\* max_participants and participants of the last stored record of that name;
\* when the names are unique that is one entry per record, none left out.  The
\* call leaves the store unchanged.
C11_OneEntryPerName ==
    [][get_activities
       => /\ store' = store
          /\ DOMAIN response'.body = Names(store)
          /\ \A n \in Names(store) :
                response'.body[n] = Shown(store[LastIndex(store, n)])
          /\ UniqueNames(store)
                => /\ Cardinality(DOMAIN response'.body) = Len(store)
                   /\ \A i \in 1..Len(store) :
                         response'.body[store[i].activity_name] = Shown(store[i])]_vars

\* The listing has just been served from a collection seeded twice, in which
\* the two records of a name differ: it shows the roster of the later one.
C11_Witness ==
    /\ response.op = "get_activities"
    /\ \E i, j \in 1..Len(store) :
          /\ i < j
          /\ store[i].activity_name = store[j].activity_name
          /\ store[i].participants # store[j].participants
          /\ response.body[store[j].activity_name].participants = store[j].participants

\* The signups of email to the activity name that have passed validation and
\* have not pushed yet.
PendingSignups(name, email) ==
    {p \in Procs : proc[p] = Pending("signup_update", name, email)}

\* C12 as stated: in every reachable state, interleaved requests included,
\* each entry of an activity's participants list appears at most once in it.
C12_AtMostOnce ==
    \A i \in 1..Len(store), email \in Emails :
        Occurrences(store[i].participants, email) <= 1

\* C12 as amended: a signup passes its duplicate check only against a roster
\* that does not hold the participant; the push of a signup that passed adds
\* one entry whatever the roster holds by then, and nothing else adds entries;
\* so each entry appears at most once when requests run one at a time, while
\* signups of one participant that all pass the check before any of them
\* pushes each add an entry, and the participant then appears once per such
\* signup (entries and validated signups of a participant together never
\* outnumber the workers).
C12_DuplicatesOnlyByRace ==
    [][/\ \A p \in Procs :
             (proc[p].pc = "idle" /\ proc'[p].pc = "signup_update")
             => ~Contains(Roster(store, proc'[p].activity_name), proc'[p].email)
       /\ \A p \in Procs :
             signup_update(p)
             => Occurrences(Roster(store', proc[p].activity_name), proc[p].email)
                   = Occurrences(Roster(store, proc[p].activity_name), proc[p].email) + 1
       /\ \A i \in 1..Len(store), email \in Emails :
             Occurrences(store'[i].participants, email)
                   > Occurrences(store[i].participants, email)
             => /\ \E p \in Procs : signup_update(p) /\ proc[p].email = email
                /\ Occurrences(store'[i].participants, email)
                      = Occurrences(store[i].participants, email) + 1
       /\ \A name \in Names(store), email \in Emails :
             Occurrences(Roster(store, name), email)
                   + Cardinality(PendingSignups(name, email)) <= NumProcs]_vars

\* A signup has just succeeded and the roster holds its participant twice.
C12_Witness ==
    /\ Succeeded(response, "signup")
    /\ \E i \in 1..Len(store), email \in Emails :
          Occurrences(store[i].participants, email) = 2

\* C13 as stated: in every reachable state the activity name is unique across
\* the records of the store, also when two workers run populate_database with
\* their count and their insert interleaved on an empty store.
C13_UniqueNames == UniqueNames(store)

\* The workers that have counted an empty collection and not inserted yet.
PendingInserts == {p \in Procs : proc[p].pc = "populate_insert"}

\* C13 as amended: a worker inserts the catalogue exactly when its count found
\* the collection empty, each insert adds every catalogue name once, and no
\* other step adds or drops a name; so the names are unique as long as one
\* worker at most has counted an empty collection, while every worker whose
\* count precedes the first insert inserts too, and each name is then stored
\* once per such worker.
C13_DuplicateNamesOnlyByRace ==
    [][/\ \A p \in Procs :
             populate_count(p)
             => (proc'[p].pc = "populate_insert" <=> store = <<>>)
       /\ \A n \in 1..NumActivities :
             NameCount(store', n) # NameCount(store, n)
             => /\ \E p \in PendingInserts : populate_insert(p)
                /\ NameCount(store', n) = NameCount(store, n) + 1
       /\ \A n \in 1..NumActivities :
             /\ store # <<>> => NameCount(store, n) >= 1
             /\ NameCount(store, n) + Cardinality(PendingInserts) <= NumProcs
       /\ Cardinality(PendingInserts) = 0 /\ UniqueNames(store) /\ store # <<>>
             => UniqueNames(store')]_vars

\* Two workers have both inserted the catalogue: every name is stored twice.
C13_Witness ==
    /\ \A p \in Procs : proc[p].pc # "start" /\ proc[p].pc # "populate_insert"
    /\ \A n \in 1..NumActivities : NameCount(store, n) = 2

====
